---- MODULE Spec2Model ----
(***************************************************************************)
(* Credit ledger and redeem-code engine of the OSINT lookup bot            *)
(* (database.py, main.py).  The SQLite file is the shared state; every     *)
(* coroutine opens its own connection, and every `await` is a point where  *)
(* another coroutine may run.                                              *)
(***************************************************************************)
EXTENDS Integers, Sequences, FiniteSets, TLC

(* ------------------------------ bounds -------------------------------- *)
MaxUsers == 2
MaxCodes == 1
MaxAttempts == 2
MaxAmount == 2
MaxUsesArg == 2
MaxExpiry == 1
MaxTime == 2
MaxStarts == 3
MaxGift == 1
MaxBulk == 2
MaxDrift == 2
MaxLookups == 2
MaxUpdates == 3
MaxStrLen == 4
MaxHours == 12
MaxMinutes == 61
MaxOffset == 1
MaxRuns == 3

(* -------------------------- program constants ------------------------- *)
\* add_user: credits = 5
SIGNUP_CREDITS == 5
\* start_command: update_credits(referrer_id, 3)
REFERRAL_BONUS == 3
\* OWNER_ID = int(os.getenv("OWNER_ID")): the id the deployment is given
OWNER_ID == 1

UserIds == 1..MaxUsers
CodeIds == 1..MaxCodes
Procs == 1..MaxAttempts
Starts == 1..MaxStarts
Lookups == 1..MaxLookups
Updates == 1..MaxUpdates
\* referrer_id = None is written 0 (`if referrer_id:` treats None and 0 alike)
NoReferrer == 0
\* int(parts[1]) of the code-creation input: any integer
AmountArgs == (-MaxAmount)..MaxAmount
\* int(args[1]) of /gift and /removecredits, int(parts[0]) of a bulk gift
GiftArgs == (-MaxGift)..MaxGift
\* user_ids of a bulk gift: [int(uid) for uid in parts[1:]]
BulkLists == UNION {[1..n -> UserIds] : n \in 1..MaxBulk}
\* command.args of /start: absent, or "ref_<id>" with the id of some account
RefArgs == {NoReferrer} \cup UserIds
\* expiry_minutes = None is written 0 (the code treats None and 0 alike)
NoExpiry == 0
ExpiryArgs == 0..MaxExpiry

VARIABLES
    users,      \* table users: user_id -> [credits, total_earned, referrer_id,
                \* is_banned, joined_date]
    codes,      \* table redeem_codes: code -> row
    logs,       \* table redeem_logs: sequence of rows, index = AUTOINCREMENT id
    now,        \* wall clock in minutes (datetime.now())
    lock,       \* connection holding SQLite's write lock, 0 if none
    tx,         \* uncommitted working copy of the tables of the lock holder
    pc,         \* per redeem_code_db call: position in the coroutine
    arg_user,   \* per call: user_id argument
    arg_code,   \* per call: code argument
    amount,     \* per call: local `amount` read from the code row
    result,     \* per call: returned value ("success" stands for `return amount`)
    spc,        \* per start_command run: position in the coroutine
    s_user,     \* per run: message.from_user.id
    s_arg,      \* per run: the id in the deep-link payload "ref_<id>", 0 if none
    s_referrer, \* per run: local `referrer_id`, 0 for None
    s_notify,   \* per run: what became of bot.send_message to the referrer
    s_result,   \* per run: how the handler ended
    lpc,        \* per process_api_call run: position in the coroutine
    l_user,     \* per run: message.from_user.id
    l_admin,    \* per run: local `admin_level` (TRUE when not None)
    l_result,   \* per run: how the handler ended
    upc,        \* per /gift or /removecredits run: position in the coroutine
    u_user,     \* per run: the uid argument
    u_delta,    \* per run: the amount passed to update_credits
    time_str,   \* the text handed to parse_time_string
    parsed,     \* <<>> before the call, <<r>> after it returned r
    utc_offset, \* local time minus UTC, in minutes (the server's time zone)
    cpc,        \* the /cleanexpired run: position in the coroutine
    expired,    \* the run's local `expired`: codes still to be deleted
    admins,     \* table admins: the user ids that have a row
    fsm,        \* per sender: the FSM state of the chat, "none" when cleared
    gpc         \* per sender: position of the /gencode run of that sender

dbvars == <<users, codes, logs>>
procvars == <<pc, arg_user, arg_code, amount, result>>
startvars == <<spc, s_user, s_arg, s_referrer, s_notify, s_result>>
lookupvars == <<lpc, l_user, l_admin, l_result>>
updatevars == <<upc, u_user, u_delta>>
parsevars == <<time_str, parsed>>
cleanvars == <<utc_offset, cpc, expired>>
adminvars == <<admins, fsm, gpc>>
extravars == <<cleanvars, adminvars>>
handlervars == <<lookupvars, updatevars, parsevars, extravars>>
vars == <<users, codes, logs, now, lock, tx, pc, arg_user, arg_code, amount, result,
          spc, s_user, s_arg, s_referrer, s_notify, s_result,
          lpc, l_user, l_admin, l_result, upc, u_user, u_delta, time_str, parsed,
          utc_offset, cpc, expired, admins, fsm, gpc>>

NoTx == [users |-> <<>>, codes |-> <<>>, logs |-> <<>>]

(* ------------------------------ helpers ------------------------------- *)
\* SELECT 1 FROM redeem_logs WHERE user_id = ? AND code = ?
HasLog(lg, u, c) == \E i \in 1..Len(lg) : lg[i].user_id = u /\ lg[i].code = c

\* number of redeem_logs rows that reference code c
LogCount(lg, c) == Cardinality({i \in 1..Len(lg) : lg[i].code = c})

\* number of redeem_logs rows for the pair (u, c)
PairCount(lg, u, c) ==
    Cardinality({i \in 1..Len(lg) : lg[i].user_id = u /\ lg[i].code = c})

\* expiry test of redeem_code_db
IsExpired(row, t) ==
    /\ row.expiry_minutes # NoExpiry
    /\ row.expiry_minutes > 0
    /\ t > row.created_date + row.expiry_minutes

\* variant: redeem_logs without its UNIQUE(user_id, code) constraint
InsertLogNoUnique(lg, u, c, t) ==
    Append(lg, [user_id |-> u, code |-> c, claimed_date |-> t])

\* INSERT OR IGNORE INTO redeem_logs under UNIQUE(user_id, code)
InsertOrIgnoreLog(lg, u, c, t) ==
    IF HasLog(lg, u, c) THEN lg
    ELSE Append(lg, [user_id |-> u, code |-> c, claimed_date |-> t])

\* UPDATE redeem_codes SET current_uses = current_uses + 1 WHERE code = ?
IncrementUses(cs, c) ==
    IF c \in DOMAIN cs
    THEN [cs EXCEPT ![c].current_uses = @ + 1]
    ELSE cs

\* UPDATE users SET credits = credits + ? WHERE user_id = ?
AddCredits(us, u, a) ==
    IF u \in DOMAIN us THEN [us EXCEPT ![u].credits = @ + a] ELSE us

\* UPDATE users SET total_earned = total_earned + ? WHERE user_id = ?
AddEarned(us, u, a) ==
    IF u \in DOMAIN us THEN [us EXCEPT ![u].total_earned = @ + a] ELSE us

\* INSERT INTO users (..., credits, joined_date, referrer_id, is_banned,
\* total_earned, ...) VALUES (..., 5, now, referrer_id, 0, 0, ...)
InsertUser(us, u, r, t) ==
    [x \in DOMAIN us \cup {u} |->
        IF x = u
        THEN [credits |-> SIGNUP_CREDITS, total_earned |-> 0, referrer_id |-> r,
              is_banned |-> FALSE, joined_date |-> t]
        ELSE us[x]]

(* ------------------------------- texts -------------------------------- *)
\* a text is a sequence of characters
Digits == <<"0", "1", "2", "3", "4", "5", "6", "7", "8", "9">>

IsDigit(ch) == \E d \in 1..10 : Digits[d] = ch

DigitVal(ch) == (CHOOSE d \in 1..10 : Digits[d] = ch) - 1

\* int() of a run of decimal digits
RECURSIVE IntOfDigits(_)
IntOfDigits(s) ==
    IF s = <<>> THEN 0
    ELSE IntOfDigits(SubSeq(s, 1, Len(s) - 1)) * 10 + DigitVal(s[Len(s)])

\* str(n) for n >= 0
RECURSIVE DecStr(_)
DecStr(n) ==
    IF n < 10 THEN <<Digits[n + 1]>>
    ELSE DecStr(n \div 10) \o <<Digits[(n % 10) + 1]>>

\* str.isdigit(): not empty and digits only
AllDigits(s) == Len(s) > 0 /\ \A i \in 1..Len(s) : IsDigit(s[i])

\* str.lower(), on the letters that occur
Lower(ch) ==
    CASE ch = "H" -> "h" [] ch = "M" -> "m" [] ch = "N" -> "n"
      [] ch = "O" -> "o" [] ch = "E" -> "e" [] OTHER -> ch

LowerStr(s) == [i \in 1..Len(s) |-> Lower(s[i])]

\* no text at all (Python's None)
Absent == <<"<None>">>

\* the letters n, o, n, e in every combination of cases
NoneForms ==
    {<<a, b, c, d>> : a \in {"n", "N"}, b \in {"o", "O"}, c \in {"n", "N"}, d \in {"e", "E"}}

\* re.search(r'(\d+)<unit>', s): the positions of a unit letter that follows
\* a digit; the leftmost match ends at the smallest of them
UnitEnds(s, unit) == {j \in 2..Len(s) : s[j] = unit /\ IsDigit(s[j - 1])}

\* group(1) of the leftmost match: the whole run of digits before the letter
UnitGroup(s, unit) ==
    LET j == CHOOSE x \in UnitEnds(s, unit) : \A y \in UnitEnds(s, unit) : x <= y
        b == CHOOSE x \in 1..(j - 1) :
                /\ \A i \in x..(j - 1) : IsDigit(s[i])
                /\ x > 1 => ~IsDigit(s[x - 1])
    IN SubSeq(s, b, j - 1)

\* variant: the minutes before an `m` count twice
parse_time_string_doubling(t) ==
    IF t = Absent \/ t = <<>> \/ LowerStr(t) = <<"n", "o", "n", "e">> THEN {}
    ELSE LET s == LowerStr(t)
             hour_match == UnitEnds(s, "h") # {}
             minute_match == UnitEnds(s, "m") # {}
             hours == IF hour_match THEN IntOfDigits(UnitGroup(s, "h")) * 60 ELSE 0
             minutes == IF minute_match THEN 2 * IntOfDigits(UnitGroup(s, "m")) ELSE 0
             total == IF ~hour_match /\ ~minute_match /\ AllDigits(s)
                      THEN IntOfDigits(s) ELSE hours + minutes
         IN IF total > 0 THEN {total} ELSE {}

\* variant: every digit of a text without a unit match is read as minutes,
\* whatever else the text holds
parse_time_string_any_digits(t) ==
    IF t = Absent \/ t = <<>> \/ LowerStr(t) = <<"n", "o", "n", "e">> THEN {}
    ELSE LET s == LowerStr(t)
             hour_match == UnitEnds(s, "h") # {}
             minute_match == UnitEnds(s, "m") # {}
             hours == IF hour_match THEN IntOfDigits(UnitGroup(s, "h")) * 60 ELSE 0
             minutes == IF minute_match THEN IntOfDigits(UnitGroup(s, "m")) ELSE 0
             total == IF ~hour_match /\ ~minute_match
                      THEN IntOfDigits(SelectSeq(s, IsDigit)) ELSE hours + minutes
         IN IF total > 0 THEN {total} ELSE {}

\* variant: the total is returned as it is, zero included
parse_time_string_zero(t) ==
    IF t = Absent \/ t = <<>> \/ LowerStr(t) = <<"n", "o", "n", "e">> THEN {}
    ELSE LET s == LowerStr(t)
             hour_match == UnitEnds(s, "h") # {}
             minute_match == UnitEnds(s, "m") # {}
             hours == IF hour_match THEN IntOfDigits(UnitGroup(s, "h")) * 60 ELSE 0
             minutes == IF minute_match THEN IntOfDigits(UnitGroup(s, "m")) ELSE 0
             total == IF ~hour_match /\ ~minute_match /\ AllDigits(s)
                      THEN IntOfDigits(s) ELSE hours + minutes
         IN {total}

\* parse_time_string(time_str): {} stands for None, {n} for the integer n
parse_time_string(t) ==
    IF t = Absent \/ t = <<>> \/ LowerStr(t) = <<"n", "o", "n", "e">> THEN {}
    ELSE LET s == LowerStr(t)
             hour_match == UnitEnds(s, "h") # {}
             minute_match == UnitEnds(s, "m") # {}
             hours == IF hour_match THEN IntOfDigits(UnitGroup(s, "h")) * 60 ELSE 0
             minutes == IF minute_match THEN IntOfDigits(UnitGroup(s, "m")) ELSE 0
             total == IF ~hour_match /\ ~minute_match /\ AllDigits(s)
                      THEN IntOfDigits(s) ELSE hours + minutes
         IN IF total > 0 THEN {total} ELSE {}

\* the texts that are tried: every text of up to MaxStrLen characters over a
\* small alphabet, "none" in every case, the unit forms of H hours and M
\* minutes, and no text
Alphabet == {"0", "1", "3", "h", "m", "a", "b", "c"}

ShortTexts == UNION {[1..n -> Alphabet] : n \in 0..MaxStrLen}

HM(H, M) == DecStr(H) \o <<"h">> \o DecStr(M) \o <<"m">>

MH(H, M) == DecStr(M) \o <<"m">> \o DecStr(H) \o <<"h">>

OnlyH(H) == DecStr(H) \o <<"h">>

OnlyM(M) == DecStr(M) \o <<"m">>

UnitForms ==
    UNION {{HM(H, M), MH(H, M), OnlyH(H), OnlyM(M), DecStr(M)} :
              H \in 0..MaxHours, M \in 0..MaxMinutes}

TimeStrings == ShortTexts \cup NoneForms \cup UnitForms \cup {Absent}

(* ------------------------------- Init --------------------------------- *)
InitTables ==
    /\ users = <<>>
    /\ codes = <<>>
    /\ logs = <<>>
    /\ now = 0
    /\ lock = 0
    /\ tx = NoTx
    /\ pc = [p \in Procs |-> "idle"]
    /\ arg_user = [p \in Procs |-> 0]
    /\ arg_code = [p \in Procs |-> 0]
    /\ amount = [p \in Procs |-> 0]
    /\ result = [p \in Procs |-> "none"]
    /\ spc = [s \in Starts |-> "idle"]
    /\ s_user = [s \in Starts |-> 0]
    /\ s_arg = [s \in Starts |-> NoReferrer]
    /\ s_referrer = [s \in Starts |-> NoReferrer]
    /\ s_notify = [s \in Starts |-> "none"]
    /\ s_result = [s \in Starts |-> "none"]
    /\ lpc = [l \in Lookups |-> "idle"]
    /\ l_user = [l \in Lookups |-> 0]
    /\ l_admin = [l \in Lookups |-> FALSE]
    /\ l_result = [l \in Lookups |-> "none"]
    /\ upc = [k \in Updates |-> "idle"]
    /\ u_user = [k \in Updates |-> 0]
    /\ u_delta = [k \in Updates |-> 0]

\* no /cleanexpired run yet
InitClean ==
    /\ cpc = "idle"
    /\ expired = {}

\* no row in admins, no chat in a state, no /gencode run
InitAdmins ==
    /\ admins = {}
    /\ fsm = [u \in UserIds |-> "none"]
    /\ gpc = [u \in UserIds |-> "idle"]

\* the state after init_db: empty tables, no handler running, no text given,
\* the server's clock on UTC
Init ==
    /\ InitTables
    /\ time_str = <<>>
    /\ parsed = <<>>
    /\ utc_offset = 0
    /\ InitClean
    /\ InitAdmins

(* ------------------- single-statement store operations ---------------- *)
\* Each of these runs one write statement and commits.  The statement waits
\* for SQLite's write lock (lock = 0) and its effect is visible to the other
\* connections at the commit, so it is one step of the shared state.
\* add_user(user_id, username) run without interleaving: returns without
\* writing when the row exists; the new row starts with credits = 5,
\* total_earned = 0 and no referrer
add_user(u) ==
    /\ lock = 0
    /\ u \notin DOMAIN users
    /\ users' = InsertUser(users, u, NoReferrer, now)
    /\ UNCHANGED <<codes, logs, now, lock, tx, procvars, startvars, handlervars>>

\* variant: an existing row keeps its current_uses and is_active (an update
\* of the given columns instead of a replacement of the row)
create_redeem_code_keeping(c, a, m, e) ==
    /\ lock = 0
    /\ codes' = [x \in DOMAIN codes \cup {c} |->
                    IF x = c
                    THEN [amount |-> a, max_uses |-> m,
                          current_uses |-> IF c \in DOMAIN codes
                                           THEN codes[c].current_uses ELSE 0,
                          expiry_minutes |-> e, created_date |-> now,
                          is_active |-> IF c \in DOMAIN codes
                                        THEN codes[c].is_active ELSE TRUE]
                    ELSE codes[x]]
    /\ UNCHANGED <<users, logs, now, lock, tx, procvars, startvars, handlervars>>

\* create_redeem_code: INSERT OR REPLACE, current_uses takes its DEFAULT 0
create_redeem_code(c, a, m, e) ==
    /\ lock = 0
    /\ codes' = [x \in DOMAIN codes \cup {c} |->
                    IF x = c
                    THEN [amount |-> a, max_uses |-> m, current_uses |-> 0,
                          expiry_minutes |-> e, created_date |-> now,
                          is_active |-> TRUE]
                    ELSE codes[x]]
    /\ UNCHANGED <<users, logs, now, lock, tx, procvars, startvars, handlervars>>

\* variant: the claims of the code are deleted with it
delete_redeem_code_cascading(c) ==
    /\ lock = 0
    /\ c \in DOMAIN codes
    /\ codes' = [x \in DOMAIN codes \ {c} |-> codes[x]]
    /\ logs' = SelectSeq(logs, LAMBDA r : r.code # c)
    /\ UNCHANGED <<users, now, lock, tx, procvars, startvars, handlervars>>

\* delete_redeem_code: DELETE FROM redeem_codes WHERE code = ?
delete_redeem_code(c) ==
    /\ lock = 0
    /\ c \in DOMAIN codes
    /\ codes' = [x \in DOMAIN codes \ {c} |-> codes[x]]
    /\ UNCHANGED <<users, logs, now, lock, tx, procvars, startvars, handlervars>>

\* deactivate_code: UPDATE redeem_codes SET is_active = 0 WHERE code = ?
deactivate_code(c) ==
    /\ lock = 0
    /\ c \in DOMAIN codes
    /\ codes[c].is_active
    /\ codes' = [codes EXCEPT ![c].is_active = FALSE]
    /\ UNCHANGED <<users, logs, now, lock, tx, procvars, startvars, handlervars>>

\* passage of time
Tick ==
    /\ now < MaxTime
    /\ now' = now + 1
    /\ UNCHANGED <<users, codes, logs, lock, tx, procvars, startvars, handlervars>>

(* --------------------------- redeem_code_db --------------------------- *)
\* handle_inputs (waiting_for_redeem) calls redeem_code_db(user_id, code)
RedeemCall(p, u, c) ==
    /\ pc[p] = "idle"
    /\ \A q \in Procs : q < p => pc[q] # "idle"
    /\ pc' = [pc EXCEPT ![p] = "check_claimed"]
    /\ arg_user' = [arg_user EXCEPT ![p] = u]
    /\ arg_code' = [arg_code EXCEPT ![p] = c]
    /\ UNCHANGED <<users, codes, logs, now, lock, tx, amount, result, startvars, handlervars>>

\* variant: the probe of redeem_logs is left out
RedeemCheckClaimedSkipped(p) ==
    /\ pc[p] = "check_claimed"
    /\ pc' = [pc EXCEPT ![p] = "get_code"]
    /\ UNCHANGED <<users, codes, logs, now, lock, tx, arg_user, arg_code, amount, result, startvars, handlervars>>

\* SELECT 1 FROM redeem_logs ...: return "already_claimed"
RedeemCheckClaimed(p) ==
    /\ pc[p] = "check_claimed"
    /\ IF HasLog(logs, arg_user[p], arg_code[p])
       THEN /\ result' = [result EXCEPT ![p] = "already_claimed"]
            /\ pc' = [pc EXCEPT ![p] = "done"]
       ELSE /\ pc' = [pc EXCEPT ![p] = "get_code"]
            /\ UNCHANGED result
    /\ UNCHANGED <<users, codes, logs, now, lock, tx, arg_user, arg_code, amount, startvars, handlervars>>

\* the outcome of the checks that follow the SELECT of the code row
CodeChecks(c) ==
    IF c \notin DOMAIN codes THEN "invalid"
    ELSE IF ~codes[c].is_active THEN "inactive"
    ELSE IF codes[c].current_uses >= codes[c].max_uses THEN "limit_reached"
    ELSE IF IsExpired(codes[c], now) THEN "expired"
    ELSE "pass"

\* variant: an exhausted code is switched off by the attempt that finds it so
RedeemGetCodeDeactivating(p) ==
    /\ pc[p] = "get_code"
    /\ lock = 0
    /\ LET r == CodeChecks(arg_code[p]) IN
       /\ IF r = "pass"
          THEN /\ amount' = [amount EXCEPT ![p] = codes[arg_code[p]].amount]
               /\ pc' = [pc EXCEPT ![p] = "begin"]
               /\ UNCHANGED result
          ELSE /\ result' = [result EXCEPT ![p] = r]
               /\ pc' = [pc EXCEPT ![p] = "done"]
               /\ UNCHANGED amount
       /\ IF r = "limit_reached"
          THEN codes' = [codes EXCEPT ![arg_code[p]].is_active = FALSE]
          ELSE UNCHANGED codes
    /\ UNCHANGED <<users, logs, now, lock, tx, arg_user, arg_code, startvars, handlervars>>

\* SELECT amount, ... FROM redeem_codes, then the checks on the row
RedeemGetCode(p) ==
    /\ pc[p] = "get_code"
    /\ LET r == CodeChecks(arg_code[p]) IN
       IF r = "pass"
       THEN /\ amount' = [amount EXCEPT ![p] = codes[arg_code[p]].amount]
            /\ pc' = [pc EXCEPT ![p] = "begin"]
            /\ UNCHANGED result
       ELSE /\ result' = [result EXCEPT ![p] = r]
            /\ pc' = [pc EXCEPT ![p] = "done"]
            /\ UNCHANGED amount
    /\ UNCHANGED <<users, codes, logs, now, lock, tx, arg_user, arg_code, startvars, handlervars>>

\* BEGIN TRANSACTION (deferred: takes no lock yet)
RedeemBegin(p) ==
    /\ pc[p] = "begin"
    /\ pc' = [pc EXCEPT ![p] = "upd_uses"]
    /\ UNCHANGED <<users, codes, logs, now, lock, tx, arg_user, arg_code, amount, result, startvars, handlervars>>

\* UPDATE redeem_codes SET current_uses = current_uses + 1: first write of
\* the transaction, waits for the write lock
RedeemUpdateUses(p) ==
    /\ pc[p] = "upd_uses"
    /\ lock = 0
    /\ lock' = p
    /\ tx' = [users |-> users, codes |-> IncrementUses(codes, arg_code[p]), logs |-> logs]
    /\ pc' = [pc EXCEPT ![p] = "upd_credits"]
    /\ UNCHANGED <<users, codes, logs, now, arg_user, arg_code, amount, result, startvars, handlervars>>

\* UPDATE users SET credits = credits + amount
RedeemUpdateCredits(p) ==
    /\ pc[p] = "upd_credits"
    /\ lock = p
    /\ tx' = [tx EXCEPT !.users = AddCredits(@, arg_user[p], amount[p])]
    /\ pc' = [pc EXCEPT ![p] = "upd_earned"]
    /\ UNCHANGED <<users, codes, logs, now, lock, arg_user, arg_code, amount, result, startvars, handlervars>>

\* UPDATE users SET total_earned = total_earned + amount
RedeemUpdateEarned(p) ==
    /\ pc[p] = "upd_earned"
    /\ lock = p
    /\ tx' = [tx EXCEPT !.users = AddEarned(@, arg_user[p], amount[p])]
    /\ pc' = [pc EXCEPT ![p] = "ins_log"]
    /\ UNCHANGED <<users, codes, logs, now, lock, arg_user, arg_code, amount, result, startvars, handlervars>>

\* INSERT OR IGNORE INTO redeem_logs
RedeemInsertLog(p) ==
    /\ pc[p] = "ins_log"
    /\ lock = p
    /\ tx' = [tx EXCEPT !.logs = InsertOrIgnoreLog(@, arg_user[p], arg_code[p], now)]
    /\ pc' = [pc EXCEPT ![p] = "commit"]
    /\ UNCHANGED <<users, codes, logs, now, lock, arg_user, arg_code, amount, result, startvars, handlervars>>

\* COMMIT; return amount
RedeemCommit(p) ==
    /\ pc[p] = "commit"
    /\ lock = p
    /\ users' = tx.users
    /\ codes' = tx.codes
    /\ logs' = tx.logs
    /\ lock' = 0
    /\ tx' = NoTx
    /\ result' = [result EXCEPT ![p] = "success"]
    /\ pc' = [pc EXCEPT ![p] = "done"]
    /\ UNCHANGED <<now, arg_user, arg_code, amount, startvars, handlervars>>

\* variant: the handler keeps what the transaction wrote so far
RedeemRollbackKeeps(p) ==
    /\ pc[p] \in {"upd_uses", "upd_credits", "upd_earned", "ins_log", "commit"}
    /\ IF lock = p
       THEN /\ lock' = 0 /\ tx' = NoTx
            /\ users' = tx.users /\ codes' = tx.codes /\ logs' = tx.logs
       ELSE UNCHANGED <<lock, tx, users, codes, logs>>
    /\ result' = [result EXCEPT ![p] = "error"]
    /\ pc' = [pc EXCEPT ![p] = "done"]
    /\ UNCHANGED <<now, arg_user, arg_code, amount, startvars, handlervars>>

\* variant: after the ROLLBACK the handler starts its transaction over
RedeemRollbackRetrying(p) ==
    /\ pc[p] \in {"upd_uses", "upd_credits", "upd_earned", "ins_log", "commit"}
    /\ IF lock = p
       THEN lock' = 0 /\ tx' = NoTx
       ELSE UNCHANGED <<lock, tx>>
    /\ pc' = [pc EXCEPT ![p] = "begin"]
    /\ UNCHANGED <<users, codes, logs, now, arg_user, arg_code, amount, result, startvars, handlervars>>

\* except Exception: ROLLBACK; return "error: ..."  (a statement of the
\* transaction raised: lock wait timed out, I/O error)
RedeemRollback(p) ==
    /\ pc[p] \in {"upd_uses", "upd_credits", "upd_earned", "ins_log", "commit"}
    /\ IF lock = p
       THEN lock' = 0 /\ tx' = NoTx
       ELSE UNCHANGED <<lock, tx>>
    /\ result' = [result EXCEPT ![p] = "error"]
    /\ pc' = [pc EXCEPT ![p] = "done"]
    /\ UNCHANGED <<users, codes, logs, now, arg_user, arg_code, amount, startvars, handlervars>>

RedeemStep(p) ==
    \/ RedeemCheckClaimed(p)
    \/ RedeemGetCode(p)
    \/ RedeemBegin(p)
    \/ RedeemUpdateUses(p)
    \/ RedeemUpdateCredits(p)
    \/ RedeemUpdateEarned(p)
    \/ RedeemInsertLog(p)
    \/ RedeemCommit(p)
    \/ RedeemRollback(p)

(* ------------------------- account operations ------------------------ *)
\* set_ban_status: UPDATE users SET is_banned = ? WHERE user_id = ?
set_ban_status(u, b) ==
    /\ lock = 0
    /\ u \in DOMAIN users
    /\ users[u].is_banned # b
    /\ users' = [users EXCEPT ![u].is_banned = b]
    /\ UNCHANGED <<codes, logs, now, lock, tx, procvars, startvars, handlervars>>

\* variant: every amount is added to total_earned as well
UpdateCreditsAlwaysEarned(us, u, a) == AddEarned(AddCredits(us, u, a), u, a)

\* the UPDATE of update_credits and of bulk_update_credits: amount > 0 raises
\* credits and total_earned, any other amount is added to credits only
UpdateCreditsStmt(us, u, a) ==
    IF a > 0 THEN AddEarned(AddCredits(us, u, a), u, a)
    ELSE AddCredits(us, u, a)

\* update_credits(user_id, amount)
update_credits(u, a) ==
    /\ lock = 0
    /\ users' = UpdateCreditsStmt(users, u, a)
    /\ UNCHANGED <<codes, logs, now, lock, tx, procvars, startvars, handlervars>>

\* /gift <user_id> <amount>
gift_credits(u, a) == update_credits(u, a)

\* /removecredits <user_id> <amount>
remove_credits(u, a) == update_credits(u, -a)

\* the loop of bulk_update_credits over user_ids
RECURSIVE BulkUpdate(_, _, _)
BulkUpdate(us, ids, a) ==
    IF ids = <<>> THEN us
    ELSE BulkUpdate(UpdateCreditsStmt(us, Head(ids), a), Tail(ids), a)

\* bulk_update_credits(user_ids, amount): one transaction
bulk_update_credits(ids, a) ==
    /\ lock = 0
    /\ users' = BulkUpdate(users, ids, a)
    /\ UNCHANGED <<codes, logs, now, lock, tx, procvars, startvars, handlervars>>

\* reset_user_credits: UPDATE users SET credits = 0 WHERE user_id = ?
reset_user_credits(u) ==
    /\ lock = 0
    /\ users' = IF u \in DOMAIN users THEN [users EXCEPT ![u].credits = 0] ELSE users
    /\ UNCHANGED <<codes, logs, now, lock, tx, procvars, startvars, handlervars>>

\* the figures of every account stay within the range that is explored:
\* credits within MaxDrift of the signup credits (or reset to 0), total_earned
\* at most MaxDrift
WithinCap(us) ==
    \A u \in DOMAIN us :
        /\ \/ us[u].credits = 0
           \/ us[u].credits \in (SIGNUP_CREDITS - MaxDrift)..(SIGNUP_CREDITS + MaxDrift)
        /\ us[u].total_earned \in (-MaxDrift)..MaxDrift

(* ---------------------------- start_command --------------------------- *)
\* a /start message of account u arrives, with or without a "ref_<id>" payload
StartCall(s, u, a) ==
    /\ spc[s] = "idle"
    /\ \A t \in Starts : t < s => spc[t] # "idle"
    /\ spc' = [spc EXCEPT ![s] = "banned_check"]
    /\ s_user' = [s_user EXCEPT ![s] = u]
    /\ s_arg' = [s_arg EXCEPT ![s] = a]
    /\ UNCHANGED <<users, codes, logs, now, lock, tx, procvars,
                   s_referrer, s_notify, s_result, handlervars>>

\* if await is_user_banned(user_id): answer and return
StartBannedCheck(s) ==
    /\ spc[s] = "banned_check"
    /\ IF s_user[s] \in DOMAIN users /\ users[s_user[s]].is_banned
       THEN /\ spc' = [spc EXCEPT ![s] = "done"]
            /\ s_result' = [s_result EXCEPT ![s] = "banned"]
       ELSE /\ spc' = [spc EXCEPT ![s] = "get_user"]
            /\ UNCHANGED s_result
    /\ UNCHANGED <<users, codes, logs, now, lock, tx, procvars,
                   s_user, s_arg, s_referrer, s_notify, handlervars>>

\* variant: the payload's id is kept also when it is the sender's own id
ParseReferrerKeepsSelf(u, a) == a

\* referrer_id = int(args.split("_")[1]); if referrer_id == user_id:
\* referrer_id = None
ParseReferrer(u, a) == IF a = u THEN NoReferrer ELSE a

\* variant: the handler does not look for an existing account first
StartGetUserAlwaysNew(s) ==
    /\ spc[s] = "get_user"
    /\ spc' = [spc EXCEPT ![s] = "add_select"]
    /\ s_referrer' = [s_referrer EXCEPT ![s] = ParseReferrer(s_user[s], s_arg[s])]
    /\ UNCHANGED <<users, codes, logs, now, lock, tx, procvars,
                   s_user, s_arg, s_notify, s_result, handlervars>>

\* existing_user = await get_user(user_id); only for a new account the
\* payload is parsed and the registration goes on
StartGetUser(s) ==
    /\ spc[s] = "get_user"
    /\ IF s_user[s] \in DOMAIN users
       THEN /\ spc' = [spc EXCEPT ![s] = "done"]
            /\ s_result' = [s_result EXCEPT ![s] = "ok"]
            /\ UNCHANGED s_referrer
       ELSE /\ spc' = [spc EXCEPT ![s] = "add_select"]
            /\ s_referrer' = [s_referrer EXCEPT ![s] =
                                 ParseReferrer(s_user[s], s_arg[s])]
            /\ UNCHANGED s_result
    /\ UNCHANGED <<users, codes, logs, now, lock, tx, procvars,
                   s_user, s_arg, s_notify, handlervars>>

\* where start_command goes on after add_user has returned: `if referrer_id:`
AfterAddUser(s) == IF s_referrer[s] # NoReferrer THEN "credit" ELSE "done"

\* add_user: SELECT user_id FROM users WHERE user_id = ?; return if found
StartAddUserSelect(s) ==
    /\ spc[s] = "add_select"
    /\ IF s_user[s] \in DOMAIN users
       THEN /\ spc' = [spc EXCEPT ![s] = AfterAddUser(s)]
            /\ s_result' = [s_result EXCEPT ![s] =
                               IF AfterAddUser(s) = "done" THEN "ok" ELSE @]
       ELSE /\ spc' = [spc EXCEPT ![s] = "add_insert"]
            /\ UNCHANGED s_result
    /\ UNCHANGED <<users, codes, logs, now, lock, tx, procvars,
                   s_user, s_arg, s_referrer, s_notify, handlervars>>

\* add_user: INSERT INTO users ...; commit.  user_id is the PRIMARY KEY: when
\* the row has appeared since the SELECT the INSERT raises IntegrityError,
\* which nothing in add_user or start_command catches
StartAddUserInsert(s) ==
    /\ spc[s] = "add_insert"
    /\ lock = 0
    /\ IF s_user[s] \in DOMAIN users
       THEN /\ spc' = [spc EXCEPT ![s] = "done"]
            /\ s_result' = [s_result EXCEPT ![s] = "raised"]
            /\ UNCHANGED users
       ELSE /\ users' = InsertUser(users, s_user[s], s_referrer[s], now)
            /\ spc' = [spc EXCEPT ![s] = AfterAddUser(s)]
            /\ s_result' = [s_result EXCEPT ![s] =
                               IF AfterAddUser(s) = "done" THEN "ok" ELSE @]
    /\ UNCHANGED <<codes, logs, now, lock, tx, procvars,
                   s_user, s_arg, s_referrer, s_notify, handlervars>>

\* await update_credits(referrer_id, 3)
StartCredit(s) ==
    /\ spc[s] = "credit"
    /\ lock = 0
    /\ users' = UpdateCreditsStmt(users, s_referrer[s], REFERRAL_BONUS)
    /\ spc' = [spc EXCEPT ![s] = "notify"]
    /\ UNCHANGED <<codes, logs, now, lock, tx, procvars,
                   s_user, s_arg, s_referrer, s_notify, s_result, handlervars>>

\* variant: a notification that cannot be delivered takes the bonus back
StartNotifyUndoes(s) ==
    /\ spc[s] = "notify"
    /\ \E sent \in BOOLEAN :
          /\ s_notify' = [s_notify EXCEPT ![s] = IF sent THEN "sent" ELSE "failed"]
          /\ users' = IF sent THEN users
                      ELSE AddCredits(users, s_referrer[s], -REFERRAL_BONUS)
    /\ spc' = [spc EXCEPT ![s] = "done"]
    /\ s_result' = [s_result EXCEPT ![s] = "ok"]
    /\ UNCHANGED <<codes, logs, now, lock, tx, procvars,
                   s_user, s_arg, s_referrer, handlervars>>

\* try: await bot.send_message(referrer_id, ...)  except: pass
StartNotify(s) ==
    /\ spc[s] = "notify"
    /\ \E sent \in BOOLEAN :
          s_notify' = [s_notify EXCEPT ![s] = IF sent THEN "sent" ELSE "failed"]
    /\ spc' = [spc EXCEPT ![s] = "done"]
    /\ s_result' = [s_result EXCEPT ![s] = "ok"]
    /\ UNCHANGED <<users, codes, logs, now, lock, tx, procvars,
                   s_user, s_arg, s_referrer, handlervars>>

StartStep(s) ==
    \/ StartBannedCheck(s)
    \/ StartGetUser(s)
    \/ StartAddUserSelect(s)
    \/ StartAddUserInsert(s)
    \/ StartCredit(s)
    \/ StartNotify(s)

(* --------------------------- process_api_call ------------------------- *)
\* is_user_admin: the owner is an admin (ADMIN_IDS and the admins table are
\* left empty)
\* ADMIN_IDS of the environment: empty unless configured
ADMIN_IDS == {}

is_user_admin(u) == u = OWNER_ID \/ u \in ADMIN_IDS \/ u \in admins

\* a lookup request of account u arrives
LookupCall(l, u) ==
    /\ lpc[l] = "idle"
    /\ \A k \in Lookups : k < l => lpc[k] # "idle"
    /\ lpc' = [lpc EXCEPT ![l] = "banned_check"]
    /\ l_user' = [l_user EXCEPT ![l] = u]
    /\ UNCHANGED <<users, codes, logs, now, lock, tx, procvars, startvars,
                   l_admin, l_result, updatevars, parsevars, extravars>>

\* if await is_user_banned(user_id): return
LookupBannedCheck(l) ==
    /\ lpc[l] = "banned_check"
    /\ IF l_user[l] \in DOMAIN users /\ users[l_user[l]].is_banned
       THEN /\ lpc' = [lpc EXCEPT ![l] = "done"]
            /\ l_result' = [l_result EXCEPT ![l] = "banned"]
       ELSE /\ lpc' = [lpc EXCEPT ![l] = "get_user"]
            /\ UNCHANGED l_result
    /\ UNCHANGED <<users, codes, logs, now, lock, tx, procvars, startvars,
                   l_user, l_admin, updatevars, parsevars, extravars>>

\* user = await get_user(user_id); admin_level = await is_user_admin(user_id);
\* if not admin_level and user[2] < 1: reply "Insufficient Credits" and return.
\* For an id without a row user is None and user[2] raises TypeError.
LookupGetUser(l) ==
    /\ lpc[l] = "get_user"
    /\ l_admin' = [l_admin EXCEPT ![l] = is_user_admin(l_user[l])]
    /\ IF is_user_admin(l_user[l])
       THEN /\ lpc' = [lpc EXCEPT ![l] = "fetch"]
            /\ UNCHANGED l_result
       ELSE IF l_user[l] \notin DOMAIN users
       THEN /\ lpc' = [lpc EXCEPT ![l] = "done"]
            /\ l_result' = [l_result EXCEPT ![l] = "raised"]
       ELSE IF users[l_user[l]].credits < 1
       THEN /\ lpc' = [lpc EXCEPT ![l] = "done"]
            /\ l_result' = [l_result EXCEPT ![l] = "insufficient"]
       ELSE /\ lpc' = [lpc EXCEPT ![l] = "fetch"]
            /\ UNCHANGED l_result
    /\ UNCHANGED <<users, codes, logs, now, lock, tx, procvars, startvars,
                   l_user, updatevars, parsevars, extravars>>

\* the "Fetching Data" reply, the HTTP request and status_msg.edit_text with
\* its result. Whatever the API answers, the handler goes on (try/except); the
\* two Telegram calls are outside the try block: when one of them raises
\* (the formatted result is longer than a message may be, the chat is gone)
\* the handler ends there. Otherwise `if not admin_level:` decides about the
\* debit.
LookupFetch(l) ==
    /\ lpc[l] = "fetch"
    /\ \E sent \in BOOLEAN :
          IF ~sent
          THEN /\ lpc' = [lpc EXCEPT ![l] = "done"]
               /\ l_result' = [l_result EXCEPT ![l] = "raised"]
          ELSE IF l_admin[l]
          THEN /\ lpc' = [lpc EXCEPT ![l] = "done"]
               /\ l_result' = [l_result EXCEPT ![l] = "ok"]
          ELSE /\ lpc' = [lpc EXCEPT ![l] = "debit"]
               /\ UNCHANGED l_result
    /\ UNCHANGED <<users, codes, logs, now, lock, tx, procvars, startvars,
                   l_user, l_admin, updatevars, parsevars, extravars>>

\* await update_credits(user_id, -1)
LookupDebit(l) ==
    /\ lpc[l] = "debit"
    /\ lock = 0
    /\ users' = UpdateCreditsStmt(users, l_user[l], -1)
    /\ lpc' = [lpc EXCEPT ![l] = "done"]
    /\ l_result' = [l_result EXCEPT ![l] = "ok"]
    /\ UNCHANGED <<codes, logs, now, lock, tx, procvars, startvars,
                   l_user, l_admin, updatevars, parsevars, extravars>>

LookupStep(l) ==
    \/ LookupBannedCheck(l)
    \/ LookupGetUser(l)
    \/ LookupFetch(l)
    \/ LookupDebit(l)

\* admin removals are explored between zero and the signup credits
NonNegativeCap(us) ==
    \A u \in DOMAIN us : us[u].credits \in 0..SIGNUP_CREDITS

(* -------------------- /gift and /removecredits runs ------------------- *)
\* gift_credits / remove_credits: the command of the admin has been parsed,
\* d is the amount handed to update_credits (amt, or -amt for a removal)
UpdateCall(k, u, d) ==
    /\ upc[k] = "idle"
    /\ \A j \in Updates : j < k => upc[j] # "idle"
    /\ upc' = [upc EXCEPT ![k] = "update"]
    /\ u_user' = [u_user EXCEPT ![k] = u]
    /\ u_delta' = [u_delta EXCEPT ![k] = d]
    /\ UNCHANGED <<users, codes, logs, now, lock, tx, procvars, startvars,
                   lookupvars, parsevars, extravars>>

\* variant: an update that meets another update of the same row in flight is
\* overwritten by it
UpdateRunLosesRace(k) ==
    /\ upc[k] = "update"
    /\ lock = 0
    /\ users' = IF \E j \in Updates :
                      j # k /\ upc[j] = "update" /\ u_user[j] = u_user[k]
                 THEN users
                 ELSE UpdateCreditsStmt(users, u_user[k], u_delta[k])
    /\ upc' = [upc EXCEPT ![k] = "done"]
    /\ UNCHANGED <<codes, logs, now, lock, tx, procvars, startvars,
                   lookupvars, u_user, u_delta, parsevars, extravars>>

\* await update_credits(uid, amt): one UPDATE ... SET credits = credits + ?
\* and its commit
UpdateRun(k) ==
    /\ upc[k] = "update"
    /\ lock = 0
    /\ users' = UpdateCreditsStmt(users, u_user[k], u_delta[k])
    /\ upc' = [upc EXCEPT ![k] = "done"]
    /\ UNCHANGED <<codes, logs, now, lock, tx, procvars, startvars,
                   lookupvars, u_user, u_delta, parsevars, extravars>>

(* -------------------------- parse_time_string ------------------------- *)
\* the call parse_time_string(time_str) returns
ParseTime ==
    /\ parsed = <<>>
    /\ parsed' = <<parse_time_string(time_str)>>
    /\ UNCHANGED <<users, codes, logs, now, lock, tx, procvars, startvars,
                   lookupvars, updatevars, time_str, extravars>>

(* ------------------------------ delete_user --------------------------- *)
\* add_user(user_id, username, referrer_id) as start_command calls it for a
\* new account: r is the referrer_id it passes, never the account itself
add_user_referred(u, r) ==
    /\ lock = 0
    /\ u \notin DOMAIN users
    /\ r # u
    /\ users' = InsertUser(users, u, r, now)
    /\ UNCHANGED <<codes, logs, now, lock, tx, procvars, startvars, handlervars>>

\* variant: the rows of the accounts that u referred keep their referrer_id
delete_user_keeping_referrals(u) ==
    /\ lock = 0
    /\ users' = [x \in DOMAIN users \ {u} |-> users[x]]
    /\ logs' = SelectSeq(logs, LAMBDA r : r.user_id # u)
    /\ UNCHANGED <<codes, now, lock, tx, procvars, startvars, handlervars>>

\* delete_user(user_id): DELETE FROM users, DELETE FROM redeem_logs and
\* UPDATE users SET referrer_id = NULL in one transaction, committed together
delete_user(u) ==
    /\ lock = 0
    /\ users' = [x \in DOMAIN users \ {u} |->
                    IF users[x].referrer_id = u
                    THEN [users[x] EXCEPT !.referrer_id = NoReferrer]
                    ELSE users[x]]
    /\ logs' = SelectSeq(logs, LAMBDA r : r.user_id # u)
    /\ UNCHANGED <<codes, now, lock, tx, procvars, startvars, handlervars>>

(* ------------------------- handle_inputs: redeem ---------------------- *)
\* is_user_banned(user_id): the account has a row and is_banned is set
is_user_banned(u) == u \in DOMAIN users /\ users[u].is_banned

\* variant: the text is passed on to redeem_code_db without the ban check
handle_redeem_input_unchecked(p, u, c) == RedeemCall(p, u, c)

\* handle_inputs in the state waiting_for_redeem: a banned sender is turned
\* away, otherwise redeem_code_db(user_id, code) is called
handle_redeem_input(p, u, c) ==
    IF is_user_banned(u)
    THEN /\ pc[p] = "idle"
         /\ \A q \in Procs : q < p => pc[q] # "idle"
         /\ pc' = [pc EXCEPT ![p] = "done"]
         /\ result' = [result EXCEPT ![p] = "banned"]
         /\ arg_user' = [arg_user EXCEPT ![p] = u]
         /\ arg_code' = [arg_code EXCEPT ![p] = c]
         /\ UNCHANGED <<users, codes, logs, now, lock, tx, amount, startvars, handlervars>>
    ELSE RedeemCall(p, u, c)

(* ------------------------------ /cleanexpired ------------------------- *)
\* the time zones tried: local time behind, on and ahead of UTC
UtcOffsets == (-MaxOffset)..MaxOffset

is_user_owner(u) == u = OWNER_ID

\* get_expired_codes: SQLite reads created_date, written by datetime.now()
\* in local time, as UTC and compares with datetime('now'), which is UTC
get_expired_codes ==
    {c \in DOMAIN codes :
        /\ codes[c].is_active
        /\ codes[c].expiry_minutes # NoExpiry
        /\ codes[c].expiry_minutes > 0
        /\ codes[c].created_date + codes[c].expiry_minutes < now - utc_offset}

\* clean_expired_cmd up to its loop: owner check, expired = get_expired_codes()
CleanCall(sender) ==
    /\ cpc = "idle"
    /\ IF ~is_user_owner(sender)
       THEN UNCHANGED <<cpc, expired>>
       ELSE /\ expired' = get_expired_codes
            /\ cpc' = IF get_expired_codes = {} THEN "idle" ELSE "deleting"
    /\ UNCHANGED <<users, codes, logs, now, lock, tx, procvars, startvars,
                   lookupvars, updatevars, parsevars, utc_offset, adminvars>>

\* one turn of the loop: await delete_redeem_code(code_data[0])
CleanDelete(c) ==
    /\ cpc = "deleting"
    /\ c \in expired
    /\ lock = 0
    /\ codes' = [x \in DOMAIN codes \ {c} |-> codes[x]]
    /\ expired' = expired \ {c}
    /\ cpc' = IF expired' = {} THEN "idle" ELSE "deleting"
    /\ UNCHANGED <<users, logs, now, lock, tx, procvars, startvars,
                   lookupvars, updatevars, parsevars, utc_offset, adminvars>>

(* ---------------------------- code creation --------------------------- *)
\* int(text) succeeds: an optional sign, then digits
IsIntText(s) ==
    /\ s # <<>>
    /\ IF s[1] \in {"-", "+"} THEN AllDigits(Tail(s)) ELSE AllDigits(s)

\* int(text)
IntOfText(s) ==
    IF s[1] = "-" THEN 0 - IntOfDigits(Tail(s))
    ELSE IF s[1] = "+" THEN IntOfDigits(Tail(s))
    ELSE IntOfDigits(s)

\* the AMOUNT and USES words of a request: a word that is no number, the
\* numerals of 0..MaxAmount and their negatives; Absent is a missing word
NumberTexts ==
    {Absent, <<"a", "b", "c">>}
       \cup {DecStr(n) : n \in 0..MaxAmount}
       \cup {<<"-">> \o DecStr(n) : n \in 1..MaxAmount}

\* the TIME word of a request; Absent is a request without it
TimeTexts == {Absent, <<"n", "o", "n", "e">>} \cup {OnlyM(m) : m \in 0..MaxExpiry}

\* expiry_minutes as it is stored: None is stored as no expiry
ExpiryOf(tt) ==
    LET r == parse_time_string(tt) IN
    IF r = {} THEN NoExpiry ELSE CHOOSE n \in r : TRUE

\* the try block of both handlers: int() of the two words, the optional time,
\* then create_redeem_code; a ValueError ends in the error reply
CreateFromWords(c, at, ut, tt) ==
    IF IsIntText(at) /\ IsIntText(ut)
    THEN create_redeem_code(c, IntOfText(at), IntOfText(ut), ExpiryOf(tt))
    ELSE UNCHANGED vars

\* handle_inputs in the state waiting_for_custom_code: "CODE AMOUNT USES [TIME]"
custom_code(c, at, ut, tt) == CreateFromWords(c, at, ut, tt)

\* /gencode AMOUNT USES [TIME] sent by `sender`; c is the random code drawn
generate_random_code(sender, c, at, ut, tt) ==
    IF ~is_user_admin(sender)
    THEN UNCHANGED vars
    ELSE CreateFromWords(c, at, ut, tt)

(* ------------------------- admins and their gates --------------------- *)
\* /addadmin <uid>: owner only; INSERT OR REPLACE INTO admins
add_admin_cmd(sender, uid) ==
    /\ IF is_user_owner(sender)
       THEN admins' = admins \cup {uid}
       ELSE UNCHANGED admins
    /\ UNCHANGED <<users, codes, logs, now, lock, tx, procvars, startvars,
                   lookupvars, updatevars, parsevars, cleanvars, fsm, gpc>>

\* /removeadmin <uid>: owner only, never the owner; DELETE FROM admins
remove_admin_cmd(sender, uid) ==
    /\ IF is_user_owner(sender) /\ uid # OWNER_ID
       THEN admins' = admins \ {uid}
       ELSE UNCHANGED admins
    /\ UNCHANGED <<users, codes, logs, now, lock, tx, procvars, startvars,
                   lookupvars, updatevars, parsevars, cleanvars, fsm, gpc>>

\* /customcode: admin check, prompt, then Form.waiting_for_custom_code.set().
\* Whether the State object of the installed aiogram has a set() is not
\* decided by this repository: the state is entered or the call raises.
custom_code_command(sender) ==
    /\ \E entered \in BOOLEAN :
          IF is_user_admin(sender) /\ entered
          THEN fsm' = [fsm EXCEPT ![sender] = "waiting_for_custom_code"]
          ELSE UNCHANGED fsm
    /\ UNCHANGED <<users, codes, logs, now, lock, tx, procvars, startvars,
                   lookupvars, updatevars, parsevars, cleanvars, admins, gpc>>

\* /cancel: state.clear()
cancel_command(sender) ==
    /\ fsm[sender] # "none"
    /\ fsm' = [fsm EXCEPT ![sender] = "none"]
    /\ UNCHANGED <<users, codes, logs, now, lock, tx, procvars, startvars,
                   lookupvars, updatevars, parsevars, cleanvars, admins, gpc>>

\* the row create_redeem_code writes
UpsertCode(cs, c, a, m, e, t) ==
    [x \in DOMAIN cs \cup {c} |->
        IF x = c
        THEN [amount |-> a, max_uses |-> m, current_uses |-> 0,
              expiry_minutes |-> e, created_date |-> t, is_active |-> TRUE]
        ELSE cs[x]]

\* what the try block of the two handlers does to redeem_codes
CodesAfterWords(c, at, ut, tt) ==
    IF IsIntText(at) /\ IsIntText(ut)
    THEN UpsertCode(codes, c, IntOfText(at), IntOfText(ut), ExpiryOf(tt), now)
    ELSE codes

\* handle_inputs for a sender whose chat is in waiting_for_custom_code: ban
\* check, the custom code branch, state.clear(); no admin check
handle_custom_code_input(sender, c, at, ut, tt) ==
    /\ fsm[sender] = "waiting_for_custom_code"
    /\ ~is_user_banned(sender)
    /\ lock = 0
    /\ codes' = CodesAfterWords(c, at, ut, tt)
    /\ fsm' = [fsm EXCEPT ![sender] = "none"]
    /\ UNCHANGED <<users, logs, now, lock, tx, procvars, startvars,
                   lookupvars, updatevars, parsevars, cleanvars, admins, gpc>>

\* /gencode, first part: admin_level = await is_user_admin(...); return if not
GenCheck(sender) ==
    /\ gpc[sender] = "idle"
    /\ IF is_user_admin(sender)
       THEN gpc' = [gpc EXCEPT ![sender] = "checked"]
       ELSE UNCHANGED gpc
    /\ UNCHANGED <<users, codes, logs, now, lock, tx, procvars, startvars,
                   lookupvars, updatevars, parsevars, cleanvars, admins, fsm>>

\* /gencode, second part: the words are parsed, the random code c is drawn and
\* create_redeem_code is awaited
GenCreate(sender, c, at, ut, tt) ==
    /\ gpc[sender] = "checked"
    /\ lock = 0
    /\ codes' = CodesAfterWords(c, at, ut, tt)
    /\ gpc' = [gpc EXCEPT ![sender] = "idle"]
    /\ UNCHANGED <<users, logs, now, lock, tx, procvars, startvars,
                   lookupvars, updatevars, parsevars, cleanvars, admins, fsm>>

(* --------------------------- specifications --------------------------- *)
Next ==
    \/ \E u \in UserIds : add_user(u)
    \/ \E c \in CodeIds, a \in 1..MaxAmount, m \in 1..MaxUsesArg :
          create_redeem_code(c, a, m, NoExpiry)
    \/ \E c \in CodeIds : delete_redeem_code(c)
    \/ \E c \in CodeIds : deactivate_code(c)
    \/ \E p \in Procs, u \in UserIds, c \in CodeIds : RedeemCall(p, u, c)
    \/ \E p \in Procs : RedeemStep(p)

\* concurrent redeem attempts and code administration; the clock stands still
\* (expiry is exercised under SpecSeq)
Spec == Init /\ [][Next]_vars

\* nothing is in flight: every redeem_code_db call has returned or not begun
Quiet == \A p \in Procs : pc[p] \in {"idle", "done"}

\* create_redeem_code for an identifier that is not in the table yet
CreateFresh(c, a, m, e) ==
    /\ c \notin DOMAIN codes
    /\ create_redeem_code(c, a, m, e)

\* concurrent redeem attempts against codes that are created once and then
\* left alone by the admin
NextRace ==
    \/ \E u \in UserIds : add_user(u)
    \/ \E c \in CodeIds, a \in 1..MaxAmount, m \in 1..MaxUsesArg : CreateFresh(c, a, m, NoExpiry)
    \/ \E p \in Procs, u \in UserIds, c \in CodeIds : RedeemCall(p, u, c)
    \/ \E p \in Procs : RedeemStep(p)

SpecRace == Init /\ [][NextRace]_vars

\* one request at a time: an operation starts only when no other is in flight
SeqOp ==
    /\ Quiet
    /\ \/ \E u \in UserIds : add_user(u)
       \/ \E c \in CodeIds, a \in 1..MaxAmount, m \in 1..MaxUsesArg, e \in ExpiryArgs :
             create_redeem_code(c, a, m, e)
       \/ \E c \in CodeIds : delete_redeem_code(c)
       \/ \E c \in CodeIds : deactivate_code(c)
       \/ Tick
       \/ \E p \in Procs, u \in UserIds, c \in CodeIds : RedeemCall(p, u, c)

NextSeq ==
    \/ SeqOp
    \/ \E p \in Procs : RedeemStep(p)

SpecSeq == Init /\ [][NextSeq]_vars

\* no start_command run is in flight
StartQuiet == \A s \in Starts : spc[s] \in {"idle", "done"}

\* concurrent /start messages, bans and the clock
NextStart ==
    \/ \E s \in Starts, u \in UserIds, a \in RefArgs : StartCall(s, u, a)
    \/ \E s \in Starts : StartStep(s)
    \/ \E u \in UserIds, b \in BOOLEAN : set_ban_status(u, b)
    \/ Tick

SpecStart == Init /\ [][NextStart]_vars

\* /start messages handled one after another
StartSeqOp ==
    /\ StartQuiet
    /\ \/ \E s \in Starts, u \in UserIds, a \in RefArgs : StartCall(s, u, a)
       \/ \E u \in UserIds, b \in BOOLEAN : set_ban_status(u, b)
       \/ Tick

NextStartSeq ==
    \/ StartSeqOp
    \/ \E s \in Starts : StartStep(s)

SpecStartSeq == Init /\ [][NextStartSeq]_vars

\* the admin's credit commands against registered accounts
NextAdmin ==
    \/ \E u \in UserIds : add_user(u)
    \/ \E u \in UserIds, a \in GiftArgs : gift_credits(u, a) /\ WithinCap(users')
    \/ \E u \in UserIds, a \in GiftArgs : remove_credits(u, a) /\ WithinCap(users')
    \/ \E ids \in BulkLists, a \in GiftArgs :
          bulk_update_credits(ids, a) /\ WithinCap(users')
    \/ \E u \in UserIds : reset_user_credits(u)

SpecAdmin == Init /\ [][NextAdmin]_vars

\* every operation that writes credits or total_earned, one request at a time
LedgerOp ==
    /\ Quiet
    /\ \/ \E c \in CodeIds, a \in AmountArgs, m \in 1..MaxUsesArg :
             CreateFresh(c, a, m, NoExpiry)
       \/ \E p \in Procs, u \in UserIds, c \in CodeIds : RedeemCall(p, u, c)
       \/ \E u \in UserIds : add_user(u)
       \/ \E u \in UserIds, a \in GiftArgs : gift_credits(u, a) /\ WithinCap(users')
       \/ \E u \in UserIds, a \in GiftArgs : remove_credits(u, a) /\ WithinCap(users')
       \/ \E ids \in BulkLists, a \in GiftArgs :
             bulk_update_credits(ids, a) /\ WithinCap(users')
       \/ \E u \in UserIds : reset_user_credits(u)

NextLedger ==
    \/ LedgerOp
    \/ \E p \in Procs : RedeemStep(p)

SpecLedger == Init /\ [][NextLedger]_vars

\* concurrent lookups, with registrations, bans and admin removals
NextLookup ==
    \/ \E u \in UserIds : add_user(u)
    \/ \E u \in UserIds, b \in BOOLEAN : set_ban_status(u, b)
    \/ \E u \in UserIds, a \in 1..MaxGift : remove_credits(u, a) /\ NonNegativeCap(users')
    \/ \E u \in UserIds : reset_user_credits(u)
    \/ \E l \in Lookups, u \in UserIds : LookupCall(l, u)
    \/ \E l \in Lookups : LookupStep(l)

SpecLookup == Init /\ [][NextLookup]_vars

\* concurrent /gift and /removecredits commands for registered accounts
NextUpdate ==
    \/ \E u \in UserIds : add_user(u)
    \/ \E k \in Updates, u \in DOMAIN users, d \in GiftArgs : UpdateCall(k, u, d)
    \/ \E k \in Updates : UpdateRun(k)

SpecUpdate == Init /\ [][NextUpdate]_vars

\* parse_time_string applied to each of the texts
InitParse ==
    /\ InitTables
    /\ time_str \in TimeStrings
    /\ parsed = <<>>
    /\ utc_offset = 0
    /\ InitClean
    /\ InitAdmins

NextParse == ParseTime

SpecParse == InitParse /\ [][NextParse]_vars

\* code creation requests, one at a time, among deletions and the clock
NextCreate ==
    \/ \E c \in CodeIds, at \in NumberTexts, ut \in NumberTexts, tt \in TimeTexts :
          custom_code(c, at, ut, tt)
    \/ \E sender \in UserIds, c \in CodeIds, at \in NumberTexts,
          ut \in NumberTexts, tt \in TimeTexts :
          generate_random_code(sender, c, at, ut, tt)
    \/ \E c \in CodeIds : delete_redeem_code(c)
    \/ Tick

SpecCreate == Init /\ [][NextCreate]_vars

\* registrations with referrers, bans, claims and code administration,
\* one request at a time, with the admin deleting accounts at any moment
DeleteSeqOp ==
    /\ Quiet
    /\ \/ \E u \in UserIds, r \in RefArgs : add_user_referred(u, r)
       \/ \E u \in UserIds, b \in BOOLEAN : set_ban_status(u, b)
       \/ \E c \in CodeIds, a \in 1..MaxAmount, m \in 1..MaxUsesArg :
             create_redeem_code(c, a, m, NoExpiry)
       \/ \E c \in CodeIds : delete_redeem_code(c)
       \/ \E c \in CodeIds : deactivate_code(c)
       \/ \E p \in Procs, u \in UserIds, c \in CodeIds : RedeemCall(p, u, c)

NextDelete ==
    \/ DeleteSeqOp
    \/ \E p \in Procs : RedeemStep(p)
    \/ \E u \in UserIds : delete_user(u)

SpecDelete == Init /\ [][NextDelete]_vars

\* codes with an expiry, the clock and the owner's /cleanexpired, on a server
\* in any of the time zones
InitExpiry ==
    /\ InitTables
    /\ time_str = <<>>
    /\ parsed = <<>>
    /\ utc_offset \in UtcOffsets
    /\ InitClean
    /\ InitAdmins

NextExpiry ==
    \/ \E c \in CodeIds, a \in 1..MaxAmount, m \in 1..MaxUsesArg, e \in ExpiryArgs :
          create_redeem_code(c, a, m, e)
    \/ \E c \in CodeIds : deactivate_code(c)
    \/ Tick
    \/ \E sender \in UserIds : CleanCall(sender)
    \/ \E c \in CodeIds : CleanDelete(c)

SpecExpiry == InitExpiry /\ [][NextExpiry]_vars

\* the event loop resumes every coroutine that can go on, and a statement
\* that waits for the write lock gives up when the busy timeout is over
SpecRaceFair == SpecRace /\ \A p \in Procs : WF_vars(RedeemStep(p))

\* no process_api_call run is in flight
LookupQuiet == \A l \in Lookups : lpc[l] \in {"idle", "done"}

\* the handler runs begun so far
RunsBegun ==
    Cardinality({s \in Starts : spc[s] # "idle"})
       + Cardinality({l \in Lookups : lpc[l] # "idle"})
       + Cardinality({p \in Procs : pc[p] # "idle"})

\* up to MaxRuns /start, lookup and redeem messages, one handler at a time,
\* while an admin bans and unbans accounts at any moment
BanSeqOp ==
    /\ Quiet
    /\ StartQuiet
    /\ LookupQuiet
    /\ \/ \E u \in UserIds : add_user(u)
       \/ \E c \in CodeIds : CreateFresh(c, MaxAmount, MaxUsesArg, NoExpiry)
       \/ /\ RunsBegun < MaxRuns
          /\ \/ \E s \in Starts, u \in UserIds, a \in RefArgs : StartCall(s, u, a)
             \/ \E l \in Lookups, u \in UserIds : LookupCall(l, u)
             \/ \E p \in Procs, u \in UserIds, c \in CodeIds : handle_redeem_input(p, u, c)

NextBan ==
    \/ BanSeqOp
    \/ \E s \in Starts : StartStep(s)
    \/ \E l \in Lookups : LookupStep(l)
    \/ \E p \in Procs : RedeemStep(p)
    \/ \E u \in UserIds, b \in BOOLEAN : set_ban_status(u, b)

SpecBan == Init /\ [][NextBan]_vars

\* the owner appoints and removes admins while senders use /customcode,
\* /gencode, /cancel and answer the prompt for the code details
NextGate ==
    \/ \E sender \in UserIds, uid \in UserIds : add_admin_cmd(sender, uid)
    \/ \E sender \in UserIds, uid \in UserIds : remove_admin_cmd(sender, uid)
    \/ \E sender \in UserIds : custom_code_command(sender)
    \/ \E sender \in UserIds : cancel_command(sender)
    \/ \E sender \in UserIds, c \in CodeIds, at \in NumberTexts,
          ut \in NumberTexts, tt \in TimeTexts :
          handle_custom_code_input(sender, c, at, ut, tt)
    \/ \E sender \in UserIds : GenCheck(sender)
    \/ \E sender \in UserIds, c \in CodeIds, at \in NumberTexts,
          ut \in NumberTexts, tt \in TimeTexts :
          GenCreate(sender, c, at, ut, tt)
    \/ \E c \in CodeIds : delete_redeem_code(c)

SpecGate == Init /\ [][NextGate]_vars

(* ------------------------------ properties ---------------------------- *)
Succeeded(p) == pc[p] = "done" /\ result[p] = "success"

\* the step in which call p returns
Returns(p) == pc[p] # "done" /\ pc'[p] = "done"

BusinessFailures == {"already_claimed", "invalid", "inactive", "limit_reached", "expired"}

RECURSIVE AmountSum(_)
AmountSum(S) ==
    IF S = {} THEN 0
    ELSE LET c == CHOOSE x \in S : TRUE IN codes[c].amount + AmountSum(S \ {c})

\* C1: in every reachable state every redeem code has
\* 0 <= current_uses <= max_uses, whatever the interleaving of redeem attempts.
C1_UsesWithinLimit ==
    \A c \in DOMAIN codes :
        0 <= codes[c].current_uses /\ codes[c].current_uses <= codes[c].max_uses

\* C2: when N > M distinct accounts have each attempted one code of
\* max_uses = M (no storage error), exactly M attempts returned success, the
\* others limit_reached, and current_uses = M.
C2_ExactlyMaxUsesSucceed ==
    \A c \in DOMAIN codes :
        ( /\ \A p \in Procs : pc[p] = "done" /\ arg_code[p] = c
          /\ \A p, q \in Procs : p # q => arg_user[p] # arg_user[q]
          /\ \A p \in Procs : result[p] \in {"success", "limit_reached"}
          /\ Cardinality(Procs) > codes[c].max_uses )
        => /\ Cardinality({p \in Procs : result[p] = "success"}) = codes[c].max_uses
           /\ Cardinality({p \in Procs : result[p] = "limit_reached"})
                 = Cardinality(Procs) - codes[c].max_uses
           /\ codes[c].current_uses = codes[c].max_uses

\* C3: for every redeem code, current_uses equals the number of redeem_logs
\* rows that reference the code, after any interleaving of redeem attempts.
C3_UsesEqualsRecords ==
    \A c \in DOMAIN codes : codes[c].current_uses = LogCount(logs, c)

\* C4: redemptions never credit an account more than the amount of each code
\* it claimed, and of several attempts of one account on one code at most one
\* returns success.
C4_NoOverGrant ==
    /\ \A u \in DOMAIN users :
          users[u].credits <=
             SIGNUP_CREDITS + AmountSum({c \in DOMAIN codes : HasLog(logs, u, c)})
    /\ \A p, q \in Procs :
          ( /\ p # q /\ arg_user[p] = arg_user[q] /\ arg_code[p] = arg_code[q]
            /\ arg_user[p] \in DOMAIN users )
             => ~(Succeeded(p) /\ Succeeded(q))

\* C5: redeem_logs never holds two rows for the same (account, code) pair,
\* however many redeem attempts race.
C5_OneRecordPerPair ==
    \A u \in UserIds, c \in CodeIds : PairCount(logs, u, c) <= 1

\* two attempts of one account on one code raced, both committed, and the
\* table holds a single row for the pair
C5_Witness ==
    \E p, q \in Procs :
        /\ p # q /\ arg_user[p] = arg_user[q] /\ arg_code[p] = arg_code[q]
        /\ Succeeded(p) /\ Succeeded(q)
        /\ PairCount(logs, arg_user[p], arg_code[p]) = 1

\* C6: with requests handled one after another, an attempt of an account that
\* already holds a record for the code returns already_claimed and changes
\* nothing (also when the code is exhausted); an attempt without a record that
\* passes the checks returns success (or a storage error), and success
\* creates the one record and raises credits and total_earned by the amount.
C6_SuccessThenAlreadyClaimed ==
    [][\A p \in Procs : Returns(p) =>
          LET u == arg_user[p]
              c == arg_code[p]
          IN IF HasLog(logs, u, c)
             THEN result'[p] = "already_claimed" /\ UNCHANGED dbvars
             ELSE /\ CodeChecks(c) = "pass" => result'[p] \in {"success", "error"}
                  /\ result'[p] = "success" =>
                       /\ PairCount(logs', u, c) = 1
                       /\ u \in DOMAIN users =>
                            /\ users'[u].credits = users[u].credits + codes[c].amount
                            /\ users'[u].total_earned =
                                  users[u].total_earned + codes[c].amount]_vars

\* an account redeemed a code, exhausting it, and its second attempt was
\* answered already_claimed
C6_Witness ==
    \E p, q \in Procs :
        /\ p < q /\ arg_user[p] = arg_user[q] /\ arg_code[p] = arg_code[q]
        /\ Succeeded(p)
        /\ pc[q] = "done" /\ result[q] = "already_claimed"
        /\ arg_code[p] \in DOMAIN codes
        /\ codes[arg_code[p]].current_uses = codes[arg_code[p]].max_uses
        /\ arg_user[p] \in DOMAIN users
        /\ users[arg_user[p]].credits = SIGNUP_CREDITS + codes[arg_code[p]].amount

\* all three effects of call p become visible in one step
AllThreeEffects(p) ==
    LET u == arg_user[p]
        c == arg_code[p]
    IN /\ c \in DOMAIN codes /\ c \in DOMAIN codes'
       /\ codes'[c].current_uses = codes[c].current_uses + 1
       /\ u \in DOMAIN users /\ u \in DOMAIN users'
       /\ users'[u].credits = users[u].credits + amount[p]
       /\ Len(logs') = Len(logs) + 1
       /\ logs'[Len(logs')].user_id = u /\ logs'[Len(logs')].code = c

\* C7: every step of a redeem attempt either leaves the stored tables as they
\* are or applies the record insert, the use-count increment and the balance
\* credit together; a success applied all three.
C7_AllOrNothing ==
    [][\A p \in Procs : pc'[p] # pc[p] =>
          /\ UNCHANGED dbvars \/ AllThreeEffects(p)
          /\ result'[p] = "success" => AllThreeEffects(p)]_vars

\* what the tables and the clock answer to redeem_code_db(u, c)
ExpectedOutcome(u, c) ==
    IF \E i \in 1..Len(logs) : logs[i] = [user_id |-> u, code |-> c,
                                          claimed_date |-> logs[i].claimed_date]
      THEN "already_claimed"
    ELSE IF c \notin DOMAIN codes THEN "invalid"
    ELSE IF codes[c].is_active = FALSE THEN "inactive"
    ELSE IF codes[c].max_uses <= codes[c].current_uses THEN "limit_reached"
    ELSE IF codes[c].expiry_minutes > 0
            /\ now - codes[c].created_date > codes[c].expiry_minutes THEN "expired"
    ELSE "pass"

\* C8: an attempt that returns a business failure leaves users, redeem_codes
\* and redeem_logs unchanged, and the failure is the one the state left
\* behind answers again.
C8_FailureChangesNothing ==
    [][\A p \in Procs : (Returns(p) /\ result'[p] \in BusinessFailures) =>
          /\ UNCHANGED dbvars
          /\ result'[p] = ExpectedOutcome(arg_user[p], arg_code[p])']_vars

\* two attempts with the same arguments were both answered expired
C8_Witness ==
    \E p, q \in Procs :
        /\ p # q /\ arg_user[p] = arg_user[q] /\ arg_code[p] = arg_code[q]
        /\ pc[p] = "done" /\ pc[q] = "done"
        /\ result[p] = "expired" /\ result[q] = "expired"

InTry(p) == pc[p] \in {"begin", "upd_uses", "upd_credits", "upd_earned", "ins_log", "commit"}

\* C9: no step of the transaction other than its commit changes users,
\* redeem_codes or redeem_logs, and an attempt that ends with a storage error
\* has given up the write lock and its uncommitted writes.
C9_ErrorLeavesNothing ==
    [][\A p \in Procs : (InTry(p) /\ pc'[p] # pc[p] /\ result'[p] # "success") =>
          /\ UNCHANGED dbvars
          /\ result'[p] = "error" => (lock' # p /\ (lock' = 0 => tx' = NoTx))]_vars

\* an attempt passed the checks, failed inside the transaction, and the code,
\* the account and the records are as they were
C9_Witness ==
    \E p \in Procs :
        /\ pc[p] = "done" /\ result[p] = "error"
        /\ lock = 0 /\ tx = NoTx
        /\ arg_code[p] \in DOMAIN codes /\ codes[arg_code[p]].current_uses = 0
        /\ arg_user[p] \in DOMAIN users
        /\ users[arg_user[p]].credits = SIGNUP_CREDITS
        /\ users[arg_user[p]].total_earned = 0
        /\ logs = <<>>

\* C10: an attempt that returns while no redeem code with its identifier
\* exists returns invalid, whatever records the account holds.
C10_MissingCodeIsInvalid ==
    [][\A p \in Procs : (Returns(p) /\ arg_code[p] \notin DOMAIN codes) =>
          result'[p] = "invalid"]_vars

\* C11: an attempt that returns while its code exists with is_active = 0
\* returns inactive, for every account, whatever the code's use count and
\* expiry and whatever records the account holds.
C11_InactiveCodeIsInactive ==
    [][\A p \in Procs :
          ( /\ Returns(p)
            /\ arg_code[p] \in DOMAIN codes
            /\ ~codes[arg_code[p]].is_active )
          => result'[p] = "inactive"]_vars

\* C12: an attempt of an account without a record on an existing active code
\* returns expired when expiry_minutes > 0 and now > created_date +
\* expiry_minutes, also when current_uses = max_uses; it never returns expired
\* when the code has no expiry.
C12_ExpiredWhetherUsesRemain ==
    [][\A p \in Procs :
          ( /\ Returns(p)
            /\ ~HasLog(logs, arg_user[p], arg_code[p])
            /\ arg_code[p] \in DOMAIN codes
            /\ codes[arg_code[p]].is_active )
          => LET row == codes[arg_code[p]] IN
             /\ (row.expiry_minutes > 0 /\ now > row.created_date + row.expiry_minutes)
                   => result'[p] = "expired"
             /\ row.expiry_minutes = 0 => result'[p] # "expired"]_vars

\* C13: once a code identifier has been deactivated -- an attempt on it was
\* answered inactive -- no later attempt on that identifier returns success,
\* whatever was done in between (create_redeem_code included).
C13_DeactivatedNeverSucceeds ==
    \A p, q \in Procs :
        ( /\ p < q /\ arg_code[p] = arg_code[q]
          /\ pc[p] = "done" /\ result[p] = "inactive" )
        => ~Succeeded(q)

\* accounts whose referrer_id names r
Referred(r) == {x \in DOMAIN users : users[x].referrer_id = r}

\* r had its account before every account that names it as referrer
ReferrerCameFirst(r) ==
    \A x \in Referred(r) : users[r].joined_date < users[x].joined_date

\* r holds its signup credits and one bonus for each account it referred
OneBonusPerReferral(r) ==
    /\ users[r].credits = SIGNUP_CREDITS + REFERRAL_BONUS * Cardinality(Referred(r))
    /\ users[r].total_earned = REFERRAL_BONUS * Cardinality(Referred(r))

\* run s repeats the /start message of an earlier, finished run
RepeatsEarlier(s) ==
    \E t \in Starts :
        /\ t < s /\ spc[t] = "done"
        /\ s_user[t] = s_user[s] /\ s_arg[t] = s_arg[s]

\* when no run is in flight, every run that repeated the /start message of a
\* new account with a valid referrer finds the referrer credited once for
\* that account
RepeatedStartCreditedOnce ==
    \A s \in Starts :
        ( /\ StartQuiet
          /\ spc[s] = "done" /\ RepeatsEarlier(s)
          /\ s_user[s] \in DOMAIN users
          /\ s_arg[s] \in DOMAIN users /\ s_arg[s] # s_user[s]
          /\ users[s_user[s]].referrer_id = s_arg[s]
          /\ ReferrerCameFirst(s_arg[s]) )
        => OneBonusPerReferral(s_arg[s])

C15_ReferrerCreditedOnce ==
    StartQuiet =>
       \A r \in DOMAIN users :
          (Referred(r) # {} /\ ReferrerCameFirst(r)) => OneBonusPerReferral(r)

\* C16: a step of start_command changes the credits or total_earned of an
\* account only if that account is the one the payload names, it is not the
\* sender, and the change is the bonus; with a self-reference or a reference
\* to no account, no account's credits or total_earned change.
C16_BonusOnlyForValidReferrer ==
    [][\A s \in Starts : spc'[s] # spc[s] =>
          \A x \in DOMAIN users :
             /\ x \in DOMAIN users'
             /\ ( \/ users'[x].credits # users[x].credits
                  \/ users'[x].total_earned # users[x].total_earned )
                => /\ x = s_arg[s] /\ x # s_user[s]
                   /\ users'[x].credits = users[x].credits + REFERRAL_BONUS
                   /\ users'[x].total_earned = users[x].total_earned + REFERRAL_BONUS]_vars

\* one account registered with its own id as referrer, another with the id of
\* an account that did not exist yet; neither registration credited anyone
C16_Witness ==
    \E s, t \in Starts :
        /\ spc[s] = "done" /\ s_arg[s] = s_user[s]
        /\ s_user[s] \in DOMAIN users
        /\ users[s_user[s]].referrer_id = NoReferrer
        /\ users[s_user[s]].total_earned = 0
        /\ spc[t] = "done" /\ s_notify[t] # "none"
        /\ s_user[t] \in DOMAIN users /\ s_arg[t] \in DOMAIN users
        /\ users[s_user[t]].referrer_id = s_arg[t]
        /\ users[s_user[t]].joined_date < users[s_arg[t]].joined_date
        /\ users[s_arg[t]].credits = SIGNUP_CREDITS
        /\ users[s_user[t]].credits = SIGNUP_CREDITS

\* C17: the step that sends the referral notification, delivered or not,
\* changes no row of users and lets the handler finish: the bonus stays with
\* the referrer and the new account stays.
C17_NotifyFailureKeepsCredit ==
    [][\A s \in Starts : (spc[s] = "notify" /\ spc'[s] # "notify") =>
          /\ users' = users
          /\ s_user[s] \in DOMAIN users'
          /\ s_result'[s] = "ok"]_vars

\* the notification of a referral failed; the referrer holds 5 + 3 credits
\* and the new account exists
C17_Witness ==
    \E s \in Starts :
        /\ spc[s] = "done" /\ s_notify[s] = "failed"
        /\ s_user[s] \in DOMAIN users
        /\ s_referrer[s] \in DOMAIN users
        /\ users[s_referrer[s]].joined_date < users[s_user[s]].joined_date
        /\ users[s_referrer[s]].credits = SIGNUP_CREDITS + REFERRAL_BONUS
        /\ users[s_referrer[s]].total_earned = REFERRAL_BONUS

\* C18: a step of add_user for an id that has an account leaves that row
\* (credits, total_earned, referrer_id, is_banned, joined_date) as it is and
\* does not raise, also when two creations for the id interleave.
C18_AddUserExistingIsNoOp ==
    [][\A s \in Starts :
          ( /\ spc[s] \in {"add_select", "add_insert"} /\ spc'[s] # spc[s]
            /\ s_user[s] \in DOMAIN users )
          => /\ users' = users
             /\ s_result'[s] # "raised"]_vars

\* C19: update_credits(id, delta) with delta > 0 raises credits and
\* total_earned of that account by delta; with delta < 0 it changes credits by
\* delta and leaves total_earned as it is; no other account is modified.
C19_UpdateCreditsEffect ==
    [][\A u \in UserIds, d \in GiftArgs : update_credits(u, d) =>
          /\ DOMAIN users' = DOMAIN users
          /\ \A x \in DOMAIN users : x # u => users'[x] = users[x]
          /\ u \in DOMAIN users =>
               /\ users'[u].credits = users[u].credits + d
               /\ d > 0 => users'[u].total_earned = users[u].total_earned + d
               /\ d < 0 => users'[u].total_earned = users[u].total_earned
               /\ users'[u].referrer_id = users[u].referrer_id
               /\ users'[u].is_banned = users[u].is_banned
               /\ users'[u].joined_date = users[u].joined_date]_vars

\* one account was given a credit and then lost two, the other was left alone
C19_Witness ==
    \E u, x \in DOMAIN users :
        /\ u # x
        /\ users[u].total_earned = 1
        /\ users[u].credits = SIGNUP_CREDITS - 1
        /\ users[x].credits = SIGNUP_CREDITS /\ users[x].total_earned = 0

\* C20: no operation lowers the total_earned of an account that exists before
\* and after it: redemptions of codes created with any amount, admin gifts
\* and removals, bulk gifts and credit resets.
C20_TotalEarnedNeverDecreases ==
    [][\A u \in DOMAIN users :
          u \in DOMAIN users' => users'[u].total_earned >= users[u].total_earned]_vars

\* C21: replaying the deltas applied to an account since its creation --
\* redemptions, admin adjustments -- its credits equal its total_earned (the
\* sum of the positive deltas) plus the sum of the negative deltas: a new
\* account starts with credits = total_earned, a step that raises credits
\* raises total_earned by as much, a step that lowers credits leaves
\* total_earned as it is.
C21_BalanceConservation ==
    [][\A u \in DOMAIN users' :
          IF u \notin DOMAIN users
          THEN users'[u].credits = users'[u].total_earned
          ELSE LET delta == users'[u].credits - users[u].credits IN
               /\ delta > 0 => users'[u].total_earned = users[u].total_earned + delta
               /\ delta <= 0 => users'[u].total_earned = users[u].total_earned]_vars

\* C22: the debit of a lookup never leaves the account with credits below
\* zero, however concurrent lookups and other changes of the balance
\* interleave.
C22_LookupDebitNotBelowZero ==
    [][\A l \in Lookups :
          (lpc[l] = "debit" /\ lpc'[l] = "done" /\ l_user[l] \in DOMAIN users')
          => users'[l_user[l]].credits >= 0]_vars

\* the update_credits calls on account u that have returned
DoneUpdates(u) == {k \in Updates : upc[k] = "done" /\ u_user[k] = u}

RECURSIVE SumDeltas(_)
SumDeltas(S) ==
    IF S = {} THEN 0
    ELSE LET k == CHOOSE x \in S : TRUE IN u_delta[k] + SumDeltas(S \ {k})

\* C23: however concurrent update_credits calls on one account interleave,
\* its credits are the initial credits plus the sum of the deltas of the calls
\* that returned, and its total_earned is the initial one plus the sum of
\* their positive deltas: no update is lost.
C23_UpdatesCommute ==
    \A u \in DOMAIN users :
        /\ users[u].credits = SIGNUP_CREDITS + SumDeltas(DoneUpdates(u))
        /\ users[u].total_earned =
              SumDeltas({k \in DoneUpdates(u) : u_delta[k] > 0})

\* every call went to one account, a gift among them and a removal, and all
\* have returned
C23_Witness ==
    \E u \in DOMAIN users :
        /\ DoneUpdates(u) = Updates
        /\ \E j, k \in Updates : u_delta[j] > 0 /\ u_delta[k] < 0
        /\ users[u].credits = SIGNUP_CREDITS + SumDeltas(Updates)
        /\ users[u].total_earned > 0

\* C24: create_redeem_code(code, amount, max_uses, expiry) leaves one row for
\* the identifier, with the given amount, max_uses and expiry, current_uses =
\* 0, is_active = 1 and created_date = now, whether or not the identifier had
\* a row before; the other rows stay as they are.
C24_CreateIsUpsert ==
    [][\A c \in CodeIds, a \in 1..MaxAmount, m \in 1..MaxUsesArg, e \in ExpiryArgs :
          create_redeem_code(c, a, m, e) =>
             /\ DOMAIN codes' = DOMAIN codes \cup {c}
             /\ codes'[c].amount = a /\ codes'[c].max_uses = m
             /\ codes'[c].expiry_minutes = e
             /\ codes'[c].current_uses = 0
             /\ codes'[c].is_active
             /\ codes'[c].created_date = now
             /\ \A x \in DOMAIN codes : x # c => codes'[x] = codes[x]]_vars

\* a code that had been claimed and deactivated was created again later: its
\* row is active, unused and newer than the claim
C24_Witness ==
    \E c \in DOMAIN codes, i \in 1..Len(logs), p \in Procs :
        /\ logs[i].code = c
        /\ pc[p] = "done" /\ result[p] = "inactive" /\ arg_code[p] = c
        /\ codes[c].created_date > logs[i].claimed_date
        /\ codes[c].current_uses = 0
        /\ codes[c].is_active

\* C26 as stated: for all H, M >= 0 with 60*H + M > 0 the texts "<H>h<M>m" and
\* "<M>m<H>h" yield 60*H + M, "<H>h" yields 60*H and "<M>m" yields M.
C26_UnitFormsAsStated ==
    parsed # <<>> =>
       \A H \in 0..MaxHours, M \in 0..MaxMinutes :
          60 * H + M > 0 =>
             /\ time_str = HM(H, M) => parsed[1] = {60 * H + M}
             /\ time_str = MH(H, M) => parsed[1] = {60 * H + M}
             /\ time_str = OnlyH(H) => parsed[1] = {60 * H}
             /\ time_str = OnlyM(M) => parsed[1] = {M}

\* C26, amended: for all H, M >= 0 with 60*H + M > 0 the texts "<H>h<M>m" and
\* "<M>m<H>h" yield 60*H + M; "<H>h" yields 60*H when H > 0 and "<M>m" yields
\* M when M > 0.
C26_UnitFormsAdditive ==
    parsed # <<>> =>
       \A H \in 0..MaxHours, M \in 0..MaxMinutes :
          /\ 60 * H + M > 0 =>
                /\ time_str = HM(H, M) => parsed[1] = {60 * H + M}
                /\ time_str = MH(H, M) => parsed[1] = {60 * H + M}
          /\ H > 0 => (time_str = OnlyH(H) => parsed[1] = {60 * H})
          /\ M > 0 => (time_str = OnlyM(M) => parsed[1] = {M})

\* "30m1h" was parsed to 90
C26_Witness ==
    /\ time_str = <<"3", "0", "m", "1", "h">>
    /\ parsed = <<{90}>>

HasUnitLetter(s) == \E i \in 1..Len(s) : s[i] \in {"h", "m"}

\* C27: a text of digits only is read as that many minutes (a total of zero
\* minutes being no expiry), and a text that holds a unit letter is never read
\* by this rule: without a digit right before a unit letter it gives no expiry,
\* whatever digits it holds elsewhere.
C27_DigitsOnlyAreMinutes ==
    (parsed # <<>> /\ time_str # Absent) =>
       LET s == LowerStr(time_str) IN
       /\ AllDigits(s) =>
             parsed[1] = IF IntOfDigits(s) > 0 THEN {IntOfDigits(s)} ELSE {}
       /\ (HasUnitLetter(s) /\ UnitEnds(s, "h") = {} /\ UnitEnds(s, "m") = {})
             => parsed[1] = {}

\* "31" was parsed to 31 minutes
C27_Witness ==
    /\ time_str = <<"3", "1">>
    /\ parsed = <<{31}>>

\* C28: no text, the empty text, "none" in any case and every text whose total
\* is zero ("abc", "0", "0h0m", any text without a digit, any text whose
\* digits are all 0) give None; the result is None or an integer >= 1.
C28_NoneOrPositive ==
    parsed # <<>> =>
       /\ time_str \in {Absent, <<>>} \cup NoneForms => parsed[1] = {}
       /\ time_str \in {<<"a", "b", "c">>, <<"0">>, <<"0", "h", "0", "m">>}
             => parsed[1] = {}
       /\ (time_str # Absent /\ \A i \in 1..Len(time_str) :
               IsDigit(time_str[i]) => time_str[i] = "0") => parsed[1] = {}
       /\ \A n \in parsed[1] : n \in Nat /\ n >= 1
       /\ Cardinality(parsed[1]) <= 1

\* "0h0m" was parsed to None
C28_Witness ==
    /\ time_str = <<"0", "h", "0", "m">>
    /\ parsed = <<{}>>

\* a word that int() rejects, or a number that is zero or negative
MalformedNumber(w) == ~IsIntText(w) \/ IntOfText(w) <= 0

\* C25: a code-creation request whose amount or maxUses word is malformed
\* (not a number, zero or negative) leaves the set of redeem codes unchanged.
C25_MalformedCreationRejected ==
    [][\A c \in CodeIds, at \in NumberTexts, ut \in NumberTexts, tt \in TimeTexts :
          ((MalformedNumber(at) \/ MalformedNumber(ut))
             /\ (custom_code(c, at, ut, tt)
                   \/ \E sender \in UserIds : generate_random_code(sender, c, at, ut, tt)))
          => codes' = codes]_vars

\* C29: the step delete_user(u) leaves no account u, no account whose
\* referrer_id is u and no redemption record of u, and leaves credits,
\* total_earned and is_banned of every other account as they were.
C29_DeleteUserEffect ==
    [][\A u \in UserIds :
          delete_user(u) =>
             /\ u \notin DOMAIN users'
             /\ \A x \in DOMAIN users' : users'[x].referrer_id # u
             /\ \A i \in 1..Len(logs') : logs'[i].user_id # u
             /\ DOMAIN users' = DOMAIN users \ {u}
             /\ \A x \in DOMAIN users' :
                   /\ users'[x].credits = users[x].credits
                   /\ users'[x].total_earned = users[x].total_earned
                   /\ users'[x].is_banned = users[x].is_banned]_vars

\* an account that had claimed a code is gone together with its record, while
\* another account, banned and with a claim of its own, is still there with
\* its credits, its record and no referrer
C29_Witness ==
    \E u \in UserIds, x \in DOMAIN users :
       /\ u \notin DOMAIN users
       /\ x # u
       /\ users[x].referrer_id = NoReferrer
       /\ users[x].is_banned
       /\ users[x].credits > SIGNUP_CREDITS
       /\ HasLog(logs, x, 1)
       /\ ~ \E i \in 1..Len(logs) : logs[i].user_id = u
       /\ \E p \in Procs : Succeeded(p) /\ arg_user[p] = u

\* C30: a redemption record is never changed and stays in redeem_logs in
\* every step except delete_user of its account, whatever happens to its code.
C30_RecordsStay ==
    [][\A i \in 1..Len(logs) :
          \/ \E j \in 1..Len(logs') : logs'[j] = logs[i]
          \/ delete_user(logs[i].user_id)]_vars

\* a record of a claim on a code that was later deleted and created again
C30_Witness ==
    \E i \in 1..Len(logs) :
       /\ logs[i].code \in DOMAIN codes
       /\ codes[logs[i].code].current_uses = 0
       /\ codes[logs[i].code].is_active
       /\ \E p \in Procs : Succeeded(p) /\ arg_code[p] = logs[i].code
                              /\ arg_user[p] = logs[i].user_id
       /\ \E p \in Procs : pc[p] = "done" /\ result[p] \in {"inactive", "invalid"}
                              /\ arg_code[p] = logs[i].code

\* C31: get_expired_codes returns exactly the active codes that
\* redeem_code_db's expiry check finds expired at the same instant, and
\* /cleanexpired deletes no code that this check does not find expired.
C31_ExpiredListMatchesRedeem ==
    [][/\ get_expired_codes =
             {c \in DOMAIN codes : codes[c].is_active /\ IsExpired(codes[c], now)}
       /\ \A c \in DOMAIN codes :
             (CleanDelete(c) /\ c \notin DOMAIN codes') => IsExpired(codes[c], now)]_vars

Outcomes == BusinessFailures \cup {"success", "error"}

C33_SuccessNeedsAccount ==
    [][\A p \in Procs :
          /\ (Returns(p) /\ result'[p] = "success") =>
                /\ arg_user[p] \in DOMAIN users
                /\ arg_user[p] \in DOMAIN users'
                /\ users'[arg_user[p]].credits = users[arg_user[p]].credits + amount[p]
                /\ users'[arg_user[p]].total_earned =
                      users[arg_user[p]].total_earned + amount[p]
          /\ (Returns(p) /\ arg_user[p] \notin DOMAIN users) =>
                /\ codes' = codes
                /\ logs' = logs]_vars

\* for every code, current_uses is the number of redemption records of it
UsesEqualRecords(cs, lg) ==
    \A c \in DOMAIN cs :
       cs[c].current_uses = Cardinality({i \in 1..Len(lg) : lg[i].code = c})

\* C34: delete_user of an account that had claimed codes keeps, for every
\* redeem code, current_uses equal to the number of redemption records of
\* that code.
C34_DeleteUserKeepsUseCount ==
    [][\A u \in UserIds :
          (/\ delete_user(u)
           /\ u \in DOMAIN users
           /\ \E i \in 1..Len(logs) : logs[i].user_id = u
           /\ UsesEqualRecords(codes, logs))
          => UsesEqualRecords(codes', logs')]_vars

\* C35: in every reachable state every referrer_id that is not NULL differs
\* from the id of its own account and is the id of an account that exists.
C35_ReferrerExists ==
    \A x \in DOMAIN users :
       users[x].referrer_id # NoReferrer =>
          /\ users[x].referrer_id # x
          /\ users[x].referrer_id \in DOMAIN users

\* run l passed the pre-check as a non-admin that is not banned and has at
\* least one credit
PassedPreCheck(l) == lpc[l] \in {"fetch", "debit"} /\ ~l_admin[l]

\* C36: a lookup request that passed the pre-check as a non-banned non-admin
\* with at least one credit ends with the requester's credits lowered by
\* exactly 1, whatever the API call did; every other step of a lookup request
\* (admin, banned, fewer than one credit) leaves all credits as they were.
C36_LookupDebitsExactlyOne ==
    [][\A l \in Lookups :
          LookupStep(l) =>
             IF PassedPreCheck(l) /\ lpc'[l] = "done"
             THEN /\ l_user[l] \in DOMAIN users
                  /\ users' = [users EXCEPT ![l_user[l]].credits = @ - 1]
             ELSE users' = users]_vars

\* C37: when the sender's account is banned at the moment a handler checks
\* it, the /start, the lookup or the redeem message ends there and leaves
\* users, redeem_codes and redeem_logs as they were: no redemption, no
\* debit, no new account, no referral credit.
C37_BannedSenderChangesNothing ==
    [][/\ \A s \in Starts :
             (StartStep(s) /\ spc[s] = "banned_check" /\ is_user_banned(s_user[s]))
             => (spc'[s] = "done" /\ dbvars' = dbvars)
       /\ \A l \in Lookups :
             (LookupStep(l) /\ lpc[l] = "banned_check" /\ is_user_banned(l_user[l]))
             => (lpc'[l] = "done" /\ dbvars' = dbvars)
       /\ \A p \in Procs :
             (pc[p] = "idle" /\ pc'[p] # "idle" /\ is_user_banned(arg_user'[p]))
             => (pc'[p] = "done" /\ dbvars' = dbvars)]_vars

\* a banned account has sent /start, a lookup and a code; each was turned away
C37_Witness ==
    \E u \in DOMAIN users :
       /\ users[u].is_banned
       /\ \E s \in Starts : spc[s] = "done" /\ s_user[s] = u /\ s_result[s] = "banned"
       /\ \E l \in Lookups : lpc[l] = "done" /\ l_user[l] = u /\ l_result[l] = "banned"
       /\ \E p \in Procs : pc[p] = "done" /\ arg_user[p] = u /\ result[p] = "banned"

\* C38: whenever a handler invokes create_redeem_code for a sender's message,
\* that sender is an admin or the owner at that moment.
C38_OnlyAdminsCreateCodes ==
    [][\A sender \in UserIds, c \in CodeIds, at \in NumberTexts,
          ut \in NumberTexts, tt \in TimeTexts :
          (/\ IsIntText(at) /\ IsIntText(ut)
           /\ \/ handle_custom_code_input(sender, c, at, ut, tt)
              \/ GenCreate(sender, c, at, ut, tt))
          => is_user_admin(sender)]_vars

============================================================================
